---------------------------- MODULE Spec2Model ----------------------------
(***************************************************************************)
(* A model of markov-bot-rs: the IrcBot store (src/src/bot.rs) and the     *)
(* threads of run() (src/src/main.rs).                                     *)
(*                                                                         *)
(* A message text is modelled by its whitespace-delimited tokens           *)
(* (msg.split_whitespace()), a probability by an integer number of         *)
(* 1/Scale units, and the CBOR artifact by the sequence of its data items. *)
(***************************************************************************)
EXTENDS Integers, Sequences, FiniteSets, Bags, TLC

(***************************************************************************)
(* Bounds of the model.                                                    *)
(***************************************************************************)
\* messages handled by one run of the sequential specification
MaxMsgs == 2
\* messages delivered to the handler thread in the threaded specification
MaxEvents == 1

(***************************************************************************)
(* Configuration and inputs.                                               *)
(***************************************************************************)
\* random and chance values are counted in units of 1/Scale
Scale == 3
\* const DEFAULT_CHANCE (0.01), in the model's unit the smallest positive one
DEFAULT_CHANCE == 1
DEFAULT_ORDER == 1
\* server.current_nickname()
Nick == "markov"
\* the options map handed to IrcBot::new / from_blob_file: "ignore" and
\* "chance" are set, "order" is not
Options == [ignore |-> {"carol"}, chance |-> 2]
\* save_interval * 10: the 100 ms ticks of one save interval
SleepTicks == 1

Channels == {"#a", "#b"}
Senders == {"alice", "bob", "carol", Nick}
CommandPrefix == "!markov"
\* Option::None of a chain link
None == "<none>"

\* a map with no entries (HashMap::new())
EmptyMap == [x \in {} |-> x]
Put(m, k, v) == [x \in (DOMAIN m) \cup {k} |-> IF x = k THEN v ELSE m[x]]

(***************************************************************************)
(* The statistical chain (crate markov_chain): a weighted multiset of      *)
(* links <<window of `order` preceding tokens, next token>>.               *)
(***************************************************************************)
ChainNew(order) == [order |-> order, chain |-> EmptyBag]

ChainIsEmpty(c) == DOMAIN c.chain = {}

\* the kept window after one more token
Shift(window, tok) == IF Len(window) = 0 THEN window ELSE Append(Tail(window), tok)

RECURSIVE TrainFrom(_, _, _)
TrainFrom(bag, window, toks) ==
    IF toks = <<>>
    THEN bag (+) SetToBag({<<window, None>>})
    ELSE TrainFrom(bag (+) SetToBag({<<window, Head(toks)>>}),
                   Shift(window, Head(toks)), Tail(toks))

\* Chain::train_string: an empty sentence trains nothing
TrainString(c, toks) ==
    IF toks = <<>> THEN c
    ELSE [c EXCEPT !.chain = TrainFrom(c.chain, [i \in 1..c.order |-> None], toks)]

\* Chain::merge: other's link weights are added to self's
Merge(c, other) == [c EXCEPT !.chain = c.chain (+) other.chain]

(***************************************************************************)
(* IrcBot (src/src/bot.rs).                                                *)
(***************************************************************************)
\* options.get(key) ... .unwrap_or(default)
OptIgnore(options) == IF "ignore" \in DOMAIN options THEN options.ignore ELSE {}
OptOrder(options) == IF "order" \in DOMAIN options THEN options.order ELSE DEFAULT_ORDER
OptChance(options) ==
    IF "chance" \in DOMAIN options THEN options.chance ELSE DEFAULT_CHANCE

New(options) ==
    [chains |-> EmptyMap, allchains |-> EmptyMap, user_settings |-> EmptyMap,
     ignore |-> OptIgnore(options), order |-> OptOrder(options),
     chance |-> OptChance(options)]

\* from_blob_file with the order of the options instead of the blob's
FromBlobFileOptionsOrder(options, blob) ==
    [chains |-> blob.chains, allchains |-> EmptyMap,
     user_settings |-> blob.user_settings,
     ignore |-> OptIgnore(options), chance |-> OptChance(options),
     order |-> OptOrder(options)]

FromBlobFile(options, blob) ==
    [chains |-> blob.chains, allchains |-> EmptyMap,
     user_settings |-> blob.user_settings,
     ignore |-> OptIgnore(options), chance |-> OptChance(options),
     order |-> blob.order]

RECURSIVE MergeAll(_, _, _)
MergeAll(allchain, chans, users) ==
    IF users = {} THEN allchain
    ELSE LET u == CHOOSE x \in users : TRUE
         IN  MergeAll(Merge(allchain, chans[u]), chans, users \ {u})

\* the bot after allchain_mut(channel); the result is b.allchains[channel]
AllchainMut(b, channel) ==
    IF channel \notin DOMAIN b.allchains
    THEN IF channel \notin DOMAIN b.chains
         THEN [b EXCEPT !.chains = Put(b.chains, channel, EmptyMap),
                        !.allchains = Put(b.allchains, channel, ChainNew(b.order))]
         ELSE [b EXCEPT !.allchains =
                   Put(b.allchains, channel,
                       MergeAll(ChainNew(b.order), b.chains[channel],
                                DOMAIN b.chains[channel]))]
    ELSE b

\* the bot after user_chain_mut(channel, user); the result is b.chains[channel][user]
UserChainMut(b, channel, user) ==
    LET chans == IF channel \in DOMAIN b.chains THEN b.chains[channel] ELSE EmptyMap
        users == IF user \in DOMAIN chans THEN chans
                 ELSE Put(chans, user, ChainNew(b.order))
    IN  [b EXCEPT !.chains = Put(b.chains, channel, users)]

\* user_settings_mut creating the record with DEFAULT_CHANCE for self.chance
UserSettingsMutDefaultChance(b, channel, user) ==
    LET chans == IF channel \in DOMAIN b.user_settings
                 THEN b.user_settings[channel] ELSE EmptyMap
        users == IF user \in DOMAIN chans THEN chans
                 ELSE Put(chans, user, [ignore |-> FALSE, chance |-> DEFAULT_CHANCE])
    IN  [b EXCEPT !.user_settings = Put(b.user_settings, channel, users)]

\* the bot after user_settings_mut(channel, user)
UserSettingsMut(b, channel, user) ==
    LET chans == IF channel \in DOMAIN b.user_settings
                 THEN b.user_settings[channel] ELSE EmptyMap
        users == IF user \in DOMAIN chans THEN chans
                 ELSE Put(chans, user, [ignore |-> FALSE, chance |-> b.chance])
    IN  [b EXCEPT !.user_settings = Put(b.user_settings, channel, users)]

\* is_ignored without its second operand
IsIgnoredGlobalOnly(b, channel, user) == user \in b.ignore

IsIgnored(b, channel, user) ==
    \/ user \in b.ignore
    \/ /\ channel \in DOMAIN b.user_settings
       /\ user \in DOMAIN b.user_settings[channel]
       /\ b.user_settings[channel][user].ignore

GetChainTotal(c) == BagCardinality(c.chain)


(***************************************************************************)
(* Outbound sends (server.send_privmsg).  A generated sentence is recorded *)
(* by the chain it was generated from, src = <<channel, user>> (AllUser    *)
(* for the channel's allchain), and num = 1 when that chain was empty.     *)
(***************************************************************************)
AllUser == "*"
NoSrc == <<"", "">>
Privmsg(to, kind, src, num, den) ==
    [to |-> to, kind |-> kind, src |-> src, num |-> num, den |-> den]

Generated(to, chan, user, c) ==
    Privmsg(to, "generated", <<chan, user>>, IF ChainIsEmpty(c) THEN 1 ELSE 0, 0)

\* str::parse::<f64> on the tokens the inputs use
ParseF64(tok) ==
    CASE tok = "0" -> [ok |-> TRUE, nan |-> FALSE, v |-> 0]
      [] tok = "1" -> [ok |-> TRUE, nan |-> FALSE, v |-> 1]
      [] tok = "2" -> [ok |-> TRUE, nan |-> FALSE, v |-> 2]
      [] tok = "3" -> [ok |-> TRUE, nan |-> FALSE, v |-> 3]
      [] tok = "-1" -> [ok |-> TRUE, nan |-> FALSE, v |-> -1]
      [] tok = "NaN" -> [ok |-> TRUE, nan |-> TRUE, v |-> 0]
      [] OTHER -> [ok |-> FALSE, nan |-> FALSE, v |-> 0]

\* chance <= self.chance && chance >= 0.0 (both false of a NaN)
\* the range test without its lower bound
ChanceNotAbove(b, p) == ~p.nan /\ p.v <= b.chance

ChanceInRange(b, p) == ~p.nan /\ p.v <= b.chance /\ p.v >= 0

\* the chains of the store, each named by <<channel, user>> (AllUser: the
\* channel's allchain)
ChainRefs(b) ==
    UNION {{<<c, u>> : u \in DOMAIN b.chains[c]} : c \in DOMAIN b.chains}
    \cup {<<c, AllUser>> : c \in DOMAIN b.allchains}
ChainAt(b, ref) ==
    IF ref[2] = AllUser THEN b.allchains[ref[1]] ELSE b.chains[ref[1]][ref[2]]

\* whether the "emulate" arm comes to its innermost branch (bot.rs:222)
EmulateFinds(b, channel, parts) ==
    /\ Len(parts) >= 3
    /\ \E chan \in {IF Len(parts) >= 4 THEN parts[4] ELSE channel} :
           chan \in DOMAIN b.chains /\ parts[3] \in DOMAIN b.chains[chan]

\* The innermost branch (bot.rs:222-223) tests and generates from `chain`, a
\* name with no binding in handle_command: the looked-up chain is `user_chain`.
\* `chain` is therefore an input here, a reference to any chain of the store.
Emulate(b, sender, channel, parts, chain) ==
    IF Len(parts) < 3
    THEN [bot |-> b, sent |-> <<Privmsg(channel, "usage", NoSrc, 0, 0)>>]
    ELSE LET user == parts[3]
             chan == IF Len(parts) >= 4 THEN parts[4] ELSE channel
         IN  IF chan \in DOMAIN b.chains
             THEN IF user \in DOMAIN b.chains[chan]
                  THEN IF ~ChainIsEmpty(ChainAt(b, chain))
                       THEN [bot |-> b,
                             sent |-> <<Generated(channel, chain[1], chain[2],
                                                  ChainAt(b, chain))>>]
                       ELSE [bot |-> b, sent |-> <<>>]
                  ELSE [bot |-> b,
                        sent |-> <<Privmsg(channel, "no_chain_user", <<chan, user>>, 0, 0)>>]
             ELSE [bot |-> b,
                   sent |-> <<Privmsg(channel, "no_chain_channel", <<chan, user>>, 0, 0)>>]

Force(b, sender, channel) ==
    LET b1 == UserChainMut(b, channel, sender)
        chain == b1.chains[channel][sender]
    IN  [bot |-> b1,
         sent |-> IF ~ChainIsEmpty(chain)
                  THEN <<Generated(channel, channel, sender, chain)>> ELSE <<>>]

All(b, sender, channel) ==
    LET b1 == AllchainMut(b, channel)
        chain == b1.allchains[channel]
    IN  [bot |-> b1,
         sent |-> IF ~ChainIsEmpty(chain)
                  THEN <<Generated(channel, channel, AllUser, chain)>> ELSE <<>>]

\* user_settings_mut(channel, user).ignore = value
SetIgnore(b, channel, user, value) ==
    LET b1 == UserSettingsMut(b, channel, user)
    IN  [b1 EXCEPT !.user_settings[channel][user].ignore = value]

\* user_settings_mut(channel, user).chance = value
SetChance(b, channel, user, value) ==
    LET b1 == UserSettingsMut(b, channel, user)
    IN  [b1 EXCEPT !.user_settings[channel][user].chance = value]

\* the "ignore" arm: the flag is assigned false (bot.rs:276)
Ignore(b, sender, channel) ==
    IF ~IsIgnored(b, channel, sender)
    THEN [bot |-> SetIgnore(b, channel, sender, FALSE),
          sent |-> <<Privmsg(sender, "ignored_confirm", NoSrc, 0, 0)>>]
    ELSE [bot |-> b, sent |-> <<>>]

\* the "listen" arm with the flag left set
ListenKeepsFlag(b, sender, channel) ==
    IF IsIgnored(b, channel, sender)
    THEN [bot |-> SetIgnore(b, channel, sender, TRUE),
          sent |-> <<Privmsg(sender, "listen_confirm", NoSrc, 0, 0)>>]
    ELSE [bot |-> b, sent |-> <<>>]

Listen(b, sender, channel) ==
    IF IsIgnored(b, channel, sender)
    THEN [bot |-> SetIgnore(b, channel, sender, FALSE),
          sent |-> <<Privmsg(sender, "listen_confirm", NoSrc, 0, 0)>>]
    ELSE [bot |-> b, sent |-> <<>>]

Chance(b, sender, channel, parts) ==
    IF Len(parts) <= 2
    THEN LET b1 == UserSettingsMut(b, channel, sender)
         IN  [bot |-> b1,
              sent |-> <<Privmsg(sender, "chance_is", NoSrc,
                                 b1.user_settings[channel][sender].chance, 0)>>]
    ELSE LET p == ParseF64(parts[3])
         IN  IF p.ok
             THEN IF ChanceInRange(b, p)
                  THEN [bot |-> SetChance(b, channel, sender, p.v),
                        sent |-> <<Privmsg(sender, "chance_set", NoSrc, p.v, 0)>>]
                  ELSE [bot |-> b,
                        sent |-> <<Privmsg(sender, "chance_range", NoSrc, b.chance, 0)>>]
             ELSE [bot |-> b, sent |-> <<Privmsg(sender, "chance_format", NoSrc, 0, 0)>>]

\* the reply carries user_total / all_total (* 100, to 4 decimals)
Status(b, sender, channel) ==
    LET b1 == UserChainMut(b, channel, sender)
        user_total == GetChainTotal(b1.chains[channel][sender])
        b2 == AllchainMut(b1, channel)
        all_total == GetChainTotal(b2.allchains[channel])
    IN  [bot |-> b2,
         sent |-> <<Privmsg(channel, "status", NoSrc, user_total, all_total)>>]

HandleCommand(b, sender, channel, parts, chain) ==
    CASE parts[2] = "emulate" -> Emulate(b, sender, channel, parts, chain)
      [] parts[2] = "force" -> Force(b, sender, channel)
      [] parts[2] = "all" -> All(b, sender, channel)
      [] parts[2] = "ignore" -> Ignore(b, sender, channel)
      [] parts[2] = "listen" -> Listen(b, sender, channel)
      [] parts[2] = "chance" -> Chance(b, sender, channel, parts)
      [] parts[2] = "status" -> Status(b, sender, channel)
      [] OTHER -> [bot |-> b, sent |-> <<>>]

\* the test of a command with len() > 2 for len() > 1
IsCommandLonger(msg_parts) == Len(msg_parts) > 2 /\ msg_parts[1] = CommandPrefix

IsCommand(msg_parts) == Len(msg_parts) > 1 /\ msg_parts[1] = CommandPrefix

(***************************************************************************)
(* The learning arm of channel_message, in the order of its statements.    *)
(***************************************************************************)
TrainAllchain(b, channel, msg) ==
    LET b1 == AllchainMut(b, channel)
    IN  [b1 EXCEPT !.allchains[channel] = TrainString(@, msg)]

TrainUserChain(b, channel, sender, msg) ==
    LET b1 == UserChainMut(b, channel, sender)
    IN  [b1 EXCEPT !.chains[channel][sender] = TrainString(@, msg)]

\* the reply with random <= chance for random < chance
ReplyNotAbove(b, sender, channel, chance, random) ==
    IF random <= chance
    THEN LET b1 == UserChainMut(b, channel, sender)
         IN  [bot |-> b1,
              sent |-> <<Generated(channel, channel, sender,
                                   b1.chains[channel][sender])>>]
    ELSE [bot |-> b, sent |-> <<>>]

\* random < chance: generate from the sender's chain and send it to the channel
Reply(b, sender, channel, chance, random) ==
    IF random < chance
    THEN LET b1 == UserChainMut(b, channel, sender)
         IN  [bot |-> b1,
              sent |-> <<Generated(channel, channel, sender,
                                   b1.chains[channel][sender])>>]
    ELSE [bot |-> b, sent |-> <<>>]

\* the order the comment at bot.rs:108-109 warns of: the allchain is built, by
\* merging the sender's chain as already trained, and then trained once more
LearnUserChainFirst(b, sender, channel, msg, random) ==
    LET b1 == UserSettingsMut(b, channel, sender)
        chance == b1.user_settings[channel][sender].chance
        b2 == TrainUserChain(b1, channel, sender, msg)
        b3 == TrainAllchain(b2, channel, msg)
    IN  Reply(b3, sender, channel, chance, random)

Learn(b, sender, channel, msg, random) ==
    LET b1 == UserSettingsMut(b, channel, sender)
        chance == b1.user_settings[channel][sender].chance
        b2 == TrainAllchain(b1, channel, msg)
        b3 == TrainUserChain(b2, channel, sender, msg)
    IN  Reply(b3, sender, channel, chance, random)

\* channel_message without the test of the sender against the own nickname
ChannelMessageOfAnyone(b, sender, channel, msg, random, chain) ==
    IF IsCommand(msg) THEN HandleCommand(b, sender, channel, msg, chain)
    ELSE IF ~IsIgnored(b, channel, sender) THEN Learn(b, sender, channel, msg, random)
    ELSE [bot |-> b, sent |-> <<>>]

ChannelMessage(b, sender, channel, msg, random, chain) ==
    IF sender = Nick THEN [bot |-> b, sent |-> <<>>]
    ELSE IF IsCommand(msg) THEN HandleCommand(b, sender, channel, msg, chain)
    ELSE IF ~IsIgnored(b, channel, sender) THEN Learn(b, sender, channel, msg, random)
    ELSE [bot |-> b, sent |-> <<>>]

(***************************************************************************)
(* The snapshot artifact.  BlobFile is written by cbor::to_vec as CBOR     *)
(* data items: a struct is a map keyed by its field names, a HashMap a     *)
(* definite-length map (entry count, then key and value of each entry), a  *)
(* Vec a definite-length array, Option::None a null.  The file is the      *)
(* sequence of these items; NoFile is a path that does not exist.          *)
(***************************************************************************)
NoFile == <<[t |-> "absent", s |-> "", n |-> 0]>>
Item(t, s, n) == [t |-> t, s |-> s, n |-> n]

BlobOf(b) == [chains |-> b.chains, user_settings |-> b.user_settings, order |-> b.order]

SerStr(str) == <<Item("str", str, 0)>>
SerOpt(tok) == IF tok = None THEN <<Item("null", "", 0)>> ELSE SerStr(tok)
SerUint(n) == <<Item("uint", "", n)>>

RECURSIVE SerWindow(_)
SerWindow(w) == IF w = <<>> THEN <<>> ELSE SerOpt(Head(w)) \o SerWindow(Tail(w))

\* the entries of one node's link map: next token, weight
RECURSIVE SerLinks(_, _, _)
SerLinks(bag, node, nexts) ==
    IF nexts = {} THEN <<>>
    ELSE LET x == CHOOSE y \in nexts : TRUE
         IN  SerOpt(x) \o SerUint(bag[<<node, x>>]) \o SerLinks(bag, node, nexts \ {x})

Nodes(bag) == {e[1] : e \in DOMAIN bag}
Nexts(bag, node) == {e[2] : e \in {d \in DOMAIN bag : d[1] = node}}

RECURSIVE SerNodes(_, _)
SerNodes(bag, nodes) ==
    IF nodes = {} THEN <<>>
    ELSE LET w == CHOOSE y \in nodes : TRUE
         IN  <<Item("array", "", Len(w))>> \o SerWindow(w)
             \o <<Item("map", "", Cardinality(Nexts(bag, w)))>>
             \o SerLinks(bag, w, Nexts(bag, w))
             \o SerNodes(bag, nodes \ {w})

\* struct Chain { chain, order }
SerChain(c) ==
    <<Item("map", "", 2)>>
    \o SerStr("chain") \o <<Item("map", "", Cardinality(Nodes(c.chain)))>>
    \o SerNodes(c.chain, Nodes(c.chain))
    \o SerStr("order") \o SerUint(c.order)

\* struct UserSettings { ignore, chance }
SerSettings(u) ==
    <<Item("map", "", 2)>>
    \o SerStr("ignore") \o <<Item("bool", "", IF u.ignore THEN 1 ELSE 0)>>
    \o SerStr("chance") \o <<Item("f64", "", u.chance)>>

RECURSIVE SerUserChains(_, _)
SerUserChains(m, keys) ==
    IF keys = {} THEN <<>>
    ELSE LET k == CHOOSE y \in keys : TRUE
         IN  SerStr(k) \o SerChain(m[k]) \o SerUserChains(m, keys \ {k})

RECURSIVE SerChainMap(_, _)
SerChainMap(m, keys) ==
    IF keys = {} THEN <<>>
    ELSE LET k == CHOOSE y \in keys : TRUE
         IN  SerStr(k) \o <<Item("map", "", Cardinality(DOMAIN m[k]))>>
             \o SerUserChains(m[k], DOMAIN m[k]) \o SerChainMap(m, keys \ {k})

RECURSIVE SerUserSettings(_, _)
SerUserSettings(m, keys) ==
    IF keys = {} THEN <<>>
    ELSE LET k == CHOOSE y \in keys : TRUE
         IN  SerStr(k) \o SerSettings(m[k]) \o SerUserSettings(m, keys \ {k})

RECURSIVE SerSettingsMap(_, _)
SerSettingsMap(m, keys) ==
    IF keys = {} THEN <<>>
    ELSE LET k == CHOOSE y \in keys : TRUE
         IN  SerStr(k) \o <<Item("map", "", Cardinality(DOMAIN m[k]))>>
             \o SerUserSettings(m[k], DOMAIN m[k]) \o SerSettingsMap(m, keys \ {k})

\* cbor::to_vec(&BlobFile { chains, user_settings, order })
ToVec(blob) ==
    <<Item("map", "", 3)>>
    \o SerStr("chains") \o <<Item("map", "", Cardinality(DOMAIN blob.chains))>>
    \o SerChainMap(blob.chains, DOMAIN blob.chains)
    \o SerStr("user_settings")
    \o <<Item("map", "", Cardinality(DOMAIN blob.user_settings))>>
    \o SerSettingsMap(blob.user_settings, DOMAIN blob.user_settings)
    \o SerStr("order") \o SerUint(blob.order)

(***************************************************************************)
(* cbor::from_slice::<BlobFile>: a parser of the item sequence.  A result  *)
(* is [ok, val, rest]; a missing or mistyped item fails, and so does any   *)
(* item left after the value (trailing data).                              *)
(***************************************************************************)
Fail == [ok |-> FALSE, val |-> <<>>, rest |-> <<>>]
Parsed(v, r) == [ok |-> TRUE, val |-> v, rest |-> r]
IsItem(s, t) == s # <<>> /\ Head(s).t = t
IsKey(s, name) == IsItem(s, "str") /\ Head(s).s = name

ParseOpt(s) ==
    IF IsItem(s, "null") THEN Parsed(None, Tail(s))
    ELSE IF IsItem(s, "str") THEN Parsed(Head(s).s, Tail(s))
    ELSE Fail

RECURSIVE ParseWindow(_, _, _)
ParseWindowNext(p, n, acc) ==
    IF p.ok THEN ParseWindow(p.rest, n - 1, Append(acc, p.val)) ELSE Fail
ParseWindow(s, n, acc) ==
    IF n = 0 THEN Parsed(acc, s) ELSE ParseWindowNext(ParseOpt(s), n, acc)

RECURSIVE ParseLinks(_, _, _, _)
ParseLinksNext(k, n, node, bag) ==
    IF k.ok /\ IsItem(k.rest, "uint")
    THEN ParseLinks(Tail(k.rest), n - 1, node, Put(bag, <<node, k.val>>, Head(k.rest).n))
    ELSE Fail
ParseLinks(s, n, node, bag) ==
    IF n = 0 THEN Parsed(bag, s) ELSE ParseLinksNext(ParseOpt(s), n, node, bag)

RECURSIVE ParseNodes(_, _, _)
ParseNodesNext(l, n) == IF l.ok THEN ParseNodes(l.rest, n - 1, l.val) ELSE Fail
ParseNodesLinks(w, n, bag) ==
    IF ~(w.ok /\ IsItem(w.rest, "map")) THEN Fail
    ELSE ParseNodesNext(ParseLinks(Tail(w.rest), Head(w.rest).n, w.val, bag), n)
ParseNodes(s, n, bag) ==
    IF n = 0 THEN Parsed(bag, s)
    ELSE IF ~IsItem(s, "array") THEN Fail
    ELSE ParseNodesLinks(ParseWindow(Tail(s), Head(s).n, <<>>), n, bag)

ParseChainOrder(c) ==
    IF ~(c.ok /\ IsKey(c.rest, "order") /\ IsItem(Tail(c.rest), "uint")) THEN Fail
    ELSE Parsed([order |-> Head(Tail(c.rest)).n, chain |-> c.val], Tail(Tail(c.rest)))
ParseChain(s) ==
    IF ~(IsItem(s, "map") /\ Head(s).n = 2 /\ IsKey(Tail(s), "chain")
         /\ IsItem(Tail(Tail(s)), "map")) THEN Fail
    ELSE ParseChainOrder(ParseNodes(Tail(Tail(Tail(s))), Head(Tail(Tail(s))).n, EmptyBag))

ParseSettings(s) ==
    IF Len(s) >= 5 /\ IsItem(s, "map") /\ s[1].n = 2
       /\ IsKey(SubSeq(s, 2, 2), "ignore") /\ s[3].t = "bool"
       /\ IsKey(SubSeq(s, 4, 4), "chance") /\ s[5].t = "f64"
    THEN Parsed([ignore |-> s[3].n = 1, chance |-> s[5].n], SubSeq(s, 6, Len(s)))
    ELSE Fail

RECURSIVE ParseUserChains(_, _, _)
ParseUserChainsNext(c, key, n, m) ==
    IF c.ok THEN ParseUserChains(c.rest, n - 1, Put(m, key, c.val)) ELSE Fail
ParseUserChains(s, n, m) ==
    IF n = 0 THEN Parsed(m, s)
    ELSE IF ~IsItem(s, "str") THEN Fail
    ELSE ParseUserChainsNext(ParseChain(Tail(s)), Head(s).s, n, m)

RECURSIVE ParseChainMap(_, _, _)
ParseChainMapNext(u, key, n, m) ==
    IF u.ok THEN ParseChainMap(u.rest, n - 1, Put(m, key, u.val)) ELSE Fail
ParseChainMap(s, n, m) ==
    IF n = 0 THEN Parsed(m, s)
    ELSE IF ~(IsItem(s, "str") /\ IsItem(Tail(s), "map")) THEN Fail
    ELSE ParseChainMapNext(ParseUserChains(Tail(Tail(s)), Head(Tail(s)).n, EmptyMap),
                           Head(s).s, n, m)

RECURSIVE ParseUserSettings(_, _, _)
ParseUserSettingsNext(c, key, n, m) ==
    IF c.ok THEN ParseUserSettings(c.rest, n - 1, Put(m, key, c.val)) ELSE Fail
ParseUserSettings(s, n, m) ==
    IF n = 0 THEN Parsed(m, s)
    ELSE IF ~IsItem(s, "str") THEN Fail
    ELSE ParseUserSettingsNext(ParseSettings(Tail(s)), Head(s).s, n, m)

RECURSIVE ParseSettingsMap(_, _, _)
ParseSettingsMapNext(u, key, n, m) ==
    IF u.ok THEN ParseSettingsMap(u.rest, n - 1, Put(m, key, u.val)) ELSE Fail
ParseSettingsMap(s, n, m) ==
    IF n = 0 THEN Parsed(m, s)
    ELSE IF ~(IsItem(s, "str") /\ IsItem(Tail(s), "map")) THEN Fail
    ELSE ParseSettingsMapNext(
             ParseUserSettings(Tail(Tail(s)), Head(Tail(s)).n, EmptyMap),
             Head(s).s, n, m)

\* the "order" field, and the end of the input
FromSliceOrder(c, u) ==
    IF u.ok /\ IsKey(u.rest, "order") /\ IsItem(Tail(u.rest), "uint")
       /\ Tail(Tail(u.rest)) = <<>>
    THEN Parsed([chains |-> c.val, user_settings |-> u.val,
                 order |-> Head(Tail(u.rest)).n], <<>>)
    ELSE Fail
FromSliceSettings(c) ==
    IF ~(c.ok /\ IsKey(c.rest, "user_settings") /\ IsItem(Tail(c.rest), "map"))
    THEN Fail
    ELSE FromSliceOrder(c, ParseSettingsMap(Tail(Tail(c.rest)), Head(Tail(c.rest)).n,
                                            EmptyMap))
FromSlice(s) ==
    IF ~(IsItem(s, "map") /\ Head(s).n = 3 /\ IsKey(Tail(s), "chains")
         /\ IsItem(Tail(Tail(s)), "map")) THEN Fail
    ELSE FromSliceSettings(ParseChainMap(Tail(Tail(Tail(s))), Head(Tail(Tail(s))).n,
                                         EmptyMap))

(***************************************************************************)
(* read_blob and save_blob.  io_ok is the outcome of the file system calls *)
(* (open, read_to_end, write_all).                                         *)
(***************************************************************************)
OrdersAgree(blob) ==
    \A c \in DOMAIN blob.chains : \A u \in DOMAIN blob.chains[c] :
        blob.chains[c][u].order = blob.order

\* read_blob without the loop of assert_eq over the chains
ReadBlobUnchecked(f, io_ok) ==
    IF f = NoFile \/ ~io_ok THEN [res |-> "err", blob |-> <<>>]
    ELSE IF ~FromSlice(f).ok THEN [res |-> "panic", blob |-> <<>>]
    ELSE [res |-> "ok", blob |-> FromSlice(f).val]

\* "err": Err(io::Error); "panic": expect / assert_eq failed; "ok": Ok(blob)
\* the loop of assert_eq over the chains of the decoded BlobFile
CheckOrders(d) ==
    IF ~d.ok THEN [res |-> "panic", blob |-> <<>>]
    ELSE IF ~OrdersAgree(d.val) THEN [res |-> "panic", blob |-> <<>>]
    ELSE [res |-> "ok", blob |-> d.val]

ReadBlob(f, io_ok) ==
    IF f = NoFile \/ ~io_ok THEN [res |-> "err", blob |-> <<>>]
    ELSE CheckOrders(FromSlice(f))

\* OpenOptions::new().write(true).create(true): the file is created when absent
\* and is not truncated; write_all writes from offset 0
WriteAll(f, bytes) ==
    IF f = NoFile \/ Len(f) <= Len(bytes) THEN bytes
    ELSE bytes \o SubSeq(f, Len(bytes) + 1, Len(f))

SaveBlob(b, f, io_ok) ==
    IF io_ok THEN [res |-> "ok", file |-> WriteAll(f, ToVec(BlobOf(b)))]
    ELSE [res |-> "err", file |-> f]

(***************************************************************************)
(* Inputs: the snapshot found at start-up and the channel messages.        *)
(***************************************************************************)
\* a snapshot of an earlier run: two speakers of #a, a lowered chance and a
\* per-channel ignore record
Blob1 ==
    [chains |-> "#a" :> ("alice" :> TrainString(ChainNew(1), <<"x", "y">>)
                         @@ "bob" :> TrainString(ChainNew(1), <<"y">>)),
     user_settings |-> "#a" :> ("bob" :> [ignore |-> FALSE, chance |-> 1])
                       @@ "#b" :> ("alice" :> [ignore |-> TRUE, chance |-> 2]),
     order |-> 1]
\* a snapshot declaring order 1 that holds a chain of order 2
BlobMixed ==
    [chains |-> "#a" :> ("alice" :> TrainString(ChainNew(1), <<"x">>)
                         @@ "bob" :> TrainString(ChainNew(2), <<"y">>)),
     user_settings |-> EmptyMap,
     order |-> 1]
\* a snapshot written by a run configured with chance = Scale (1.0) and
\* order = 2: its record holds that global chance, its chain that order
BlobOther ==
    [chains |-> "#a" :> ("bob" :> TrainString(ChainNew(2), <<"y">>)),
     user_settings |-> "#a" :> ("bob" :> [ignore |-> FALSE, chance |-> Scale]),
     order |-> 2]
InitFiles == {NoFile, ToVec(Blob1), ToVec(BlobMixed), ToVec(BlobOther)}

P == CommandPrefix
PlainTexts == {<<>>, <<"x">>, <<"x", "y">>, <<P>>}
CommandTexts ==
    {<<P, "emulate">>, <<P, "emulate", "bob">>, <<P, "emulate", "bob", "#a">>,
     <<P, "force">>, <<P, "all">>, <<P, "ignore">>, <<P, "listen">>,
     <<P, "chance">>, <<P, "chance", "0">>, <<P, "chance", "1">>,
     <<P, "chance", "3">>, <<P, "chance", "-1">>, <<P, "chance", "NaN">>,
     <<P, "chance", "abc">>, <<P, "status">>, <<P, "bogus">>}
Texts == PlainTexts \cup CommandTexts
Message(sender, channel, msg) == [sender |-> sender, channel |-> channel, msg |-> msg]
NoMessage == Message("", "", <<>>)
\* the events of the sequential specification: two speakers in both channels,
\* the globally ignored speaker and the bot itself in one
Inputs ==
    {Message(s, c, m) : s \in {"alice", "bob"}, c \in Channels, m \in Texts}
    \cup {Message(s, "#a", m) : s \in {"carol", Nick}, m \in Texts}
\* the events delivered to the handler thread in the threaded specification
RunInputs ==
    {Message("alice", "#a", <<"x">>), Message("bob", "#b", <<"x", "y">>),
     Message("alice", "#a", <<P, "chance", "1">>), Message("carol", "#a", <<"x">>)}

(***************************************************************************)
(* State.                                                                  *)
(***************************************************************************)
VARIABLES
    bot,        \* the IrcBot behind the mutex
    sent,       \* the sends made while handling the latest message
    hmsg,       \* the message handled last, or being handled
    nmsg,       \* messages taken from the event stream
    file,       \* the content of chain_file
    running,    \* the AtomicBool `running`
    lock,       \* the holder of the bot mutex: "free", "handler" or "saver"
    mainpc,     \* run(): "start", "loop", "join", "done"; "panicked"
    hpc,        \* the handler thread's position
    spc,        \* the save thread's position
    count,      \* the save thread's tick counter
    loadres,    \* the outcome of read_blob at start-up
    lastSave,   \* the outcome of the latest save_blob
    written,    \* the BlobFile the latest save_blob serialized
    committed,  \* the bot as the handler thread last released it
    finalSave,  \* the outcome of the save after the loop of the save thread
    drawn       \* the random number drawn in handling hmsg, NoDraw if none

vars == <<bot, sent, hmsg, nmsg, file, running, lock, mainpc, hpc, spc, count,
          loadres, lastSave, written, committed, finalSave, drawn>>
storeVars == <<bot, sent, hmsg, nmsg, drawn>>
threadVars == <<running, lock, mainpc, hpc, spc, count>>
fileVars == <<file, loadres, lastSave, written, finalSave>>

\* the place of the bot before it is constructed
NoBot == [New(Options) EXCEPT !.order = 0]
NoBlob == BlobOf(NoBot)

\* run(), lines 86-98: the bot a read_blob result constructs
Construct(r) ==
    IF r.res = "ok" THEN FromBlobFile(Options, r.blob) ELSE New(Options)

(***************************************************************************)
(* The handler thread (main.rs:102-117).  hpc: "iter" at server.iter(),    *)
(* "lock" at bot.lock(), "handle" in bot.handle(msg) (and "allchain",      *)
(* "userchain", "reply" inside the learning arm of channel_message),       *)
(* "handled" at the end of the match arm, "ended" after the loop.          *)
(***************************************************************************)
\* whether channel_message takes its learning arm
Learns(b, m) ==
    m.sender # Nick /\ ~IsCommand(m.msg) /\ ~IsIgnored(b, m.channel, m.sender)

\* rand::thread_rng().next_f64(), drawn in the learning arm only
Draws(b, m) == IF Learns(b, m) THEN 0..(Scale - 1) ELSE {0}
\* no draw: 1.0, which next_f64 never returns
NoDraw == Scale

\* what `chain` of the "emulate" arm may refer to, where the arm comes to use it
Binds(b, m) ==
    IF m.sender # Nick /\ IsCommand(m.msg) /\ m.msg[2] = "emulate"
       /\ EmulateFinds(b, m.channel, m.msg)
    THEN ChainRefs(b) ELSE {NoSrc}

(***************************************************************************)
(* run() (main.rs:64-169).  mainpc: "start" before the bot is constructed, *)
(* "loop" in the main loop, "join" at save_thread.join(), "done" when run  *)
(* has returned; "panicked" when read_blob panicked.                       *)
(***************************************************************************)
\* the process lives: its threads are scheduled
Alive == mainpc \in {"loop", "join"}

\* lines 78-162: read_blob, the bot, both threads, the ctrl-c handler
Start(io_ok) ==
    /\ mainpc = "start"
    /\ \E r \in {ReadBlob(file, io_ok)} :
           /\ loadres' = r.res
           /\ IF r.res = "panic"
              THEN /\ mainpc' = "panicked"
                   /\ UNCHANGED <<bot, committed, hpc, spc>>
              ELSE /\ bot' = Construct(r)
                   /\ committed' = Construct(r)
                   /\ mainpc' = "loop" /\ hpc' = "iter" /\ spc' = "check"
    /\ UNCHANGED <<sent, hmsg, nmsg, drawn, file, running, lock, count, lastSave,
                   written, finalSave>>

\* the ctrl-c handler: running.store(false)
CtrlC ==
    /\ mainpc = "loop" /\ running
    /\ running' = FALSE
    /\ UNCHANGED <<storeVars, committed, lock, mainpc, hpc, spc, count, fileVars>>

\* the main loop left without a look at the flag
MainLoopNoWait ==
    /\ mainpc = "loop"
    /\ mainpc' = "join"
    /\ UNCHANGED <<storeVars, committed, running, lock, hpc, spc, count, fileVars>>

\* while running.load() { sleep } falls through
MainLoop ==
    /\ mainpc = "loop" /\ ~running
    /\ mainpc' = "join"
    /\ UNCHANGED <<storeVars, committed, running, lock, hpc, spc, count, fileVars>>

\* run() returns without joining the save thread
JoinNoWait ==
    /\ mainpc = "join"
    /\ mainpc' = "done"
    /\ UNCHANGED <<storeVars, committed, running, lock, hpc, spc, count, fileVars>>

\* save_thread.join() returns and run() with it
Join ==
    /\ mainpc = "join" /\ spc = "done"
    /\ mainpc' = "done"
    /\ UNCHANGED <<storeVars, committed, running, lock, hpc, spc, count, fileVars>>

(***************************************************************************)
(* The handler thread, continued.                                          *)
(***************************************************************************)
\* server.iter() yields Ok(msg)
Recv(m, max) ==
    /\ Alive /\ hpc = "iter" /\ nmsg < max
    /\ hmsg' = m /\ sent' = <<>> /\ nmsg' = nmsg + 1 /\ drawn' = NoDraw
    /\ hpc' = "lock"
    /\ UNCHANGED <<bot, committed, running, lock, mainpc, spc, count, fileVars>>

\* server.iter() yields Err(e), or ends: the thread leaves its loop
StreamEnd ==
    /\ Alive /\ hpc = "iter"
    /\ hpc' = "ended"
    /\ UNCHANGED <<storeVars, committed, running, lock, mainpc, spc, count, fileVars>>

\* a thread may take the mutex
MutexFree == lock = "free"

\* bot.lock()
HandlerLock ==
    /\ Alive /\ hpc = "lock" /\ MutexFree
    /\ lock' = "handler" /\ hpc' = "handle"
    /\ UNCHANGED <<storeVars, committed, running, mainpc, spc, count, fileVars>>

\* bot.handle(msg), whole
Handle(random, chain) ==
    /\ Alive /\ hpc = "handle"
    /\ \E r \in {ChannelMessage(bot, hmsg.sender, hmsg.channel, hmsg.msg, random,
                                chain)} :
           bot' = r.bot /\ sent' = r.sent
    /\ drawn' = IF Learns(bot, hmsg) THEN random ELSE NoDraw
    /\ hpc' = "handled"
    /\ UNCHANGED <<hmsg, nmsg, committed, lock, running, mainpc, spc, count, fileVars>>

\* bot.handle(msg) outside the learning arm: own message, command, ignored speaker
HandleOther ==
    /\ ~Learns(bot, hmsg)
    /\ \E chain \in Binds(bot, hmsg) : Handle(0, chain)

\* bot.rs:107
HandleSettings ==
    /\ Alive /\ hpc = "handle" /\ Learns(bot, hmsg)
    /\ bot' = UserSettingsMut(bot, hmsg.channel, hmsg.sender)
    /\ hpc' = "allchain"
    /\ UNCHANGED <<sent, hmsg, nmsg, drawn, committed, lock, running, mainpc, spc,
                   count, fileVars>>

\* bot.rs:110-113
HandleTrainAllchain ==
    /\ Alive /\ hpc = "allchain"
    /\ bot' = TrainAllchain(bot, hmsg.channel, hmsg.msg)
    /\ hpc' = "userchain"
    /\ UNCHANGED <<sent, hmsg, nmsg, drawn, committed, lock, running, mainpc, spc,
                   count, fileVars>>

\* bot.rs:115-118
HandleTrainUserChain ==
    /\ Alive /\ hpc = "userchain"
    /\ bot' = TrainUserChain(bot, hmsg.channel, hmsg.sender, hmsg.msg)
    /\ hpc' = "reply"
    /\ UNCHANGED <<sent, hmsg, nmsg, drawn, committed, lock, running, mainpc, spc,
                   count, fileVars>>

\* bot.rs:121-128
HandleReply(random) ==
    /\ Alive /\ hpc = "reply"
    /\ \E r \in {Reply(bot, hmsg.sender, hmsg.channel,
                        bot.user_settings[hmsg.channel][hmsg.sender].chance, random)} :
           bot' = r.bot /\ sent' = r.sent
    /\ drawn' = random
    /\ hpc' = "handled"
    /\ UNCHANGED <<hmsg, nmsg, committed, lock, running, mainpc, spc, count, fileVars>>

\* the guard is dropped and the loop takes its next turn
Release ==
    /\ Alive /\ hpc = "handled"
    /\ hpc' = "iter" /\ lock' = "free"
    /\ hmsg' = NoMessage /\ sent' = <<>> /\ drawn' = NoDraw
    /\ committed' = bot
    /\ UNCHANGED <<bot, nmsg, running, mainpc, spc, count, fileVars>>

(***************************************************************************)
(* The save thread (main.rs:122-152).  spc: "check" at the test of the     *)
(* outer loop, "sleep" in the inner loop, "lockP" / "saveP" / "savedP" at  *)
(* the periodic save (before bot.lock(), before save_blob, before the      *)
(* guard is dropped), "final" / "saveF" / "savedF" at the last save,       *)
(* "done" at the end of the thread.                                        *)
(***************************************************************************)
\* 'outer: while running.load() { let mut count = 0;
SaverCheck ==
    /\ Alive /\ spc = "check"
    /\ IF running THEN count' = 0 /\ spc' = "sleep"
       ELSE spc' = "final" /\ UNCHANGED count
    /\ UNCHANGED <<storeVars, committed, running, lock, mainpc, hpc, fileVars>>

\* one turn of the inner loop: sleep 100 ms, count += 1, break 'outer if stopped
SaverTick ==
    /\ Alive /\ spc = "sleep" /\ count < SleepTicks
    /\ count' = count + 1
    /\ spc' = IF ~running THEN "final" ELSE "sleep"
    /\ UNCHANGED <<storeVars, committed, running, lock, mainpc, hpc, fileVars>>

\* the inner loop ends: the interval has elapsed
SaverElapsed ==
    /\ Alive /\ spc = "sleep" /\ count >= SleepTicks
    /\ spc' = "lockP"
    /\ UNCHANGED <<storeVars, committed, running, lock, mainpc, hpc, count, fileVars>>

\* the lock blocks entered without the mutex
SaverNoLock ==
    /\ Alive /\ spc \in {"lockP", "final"}
    /\ spc' = IF spc = "lockP" THEN "saveP" ELSE "saveF"
    /\ UNCHANGED <<storeVars, committed, running, lock, mainpc, hpc, count, fileVars>>

\* bot.lock() of either lock block
SaverLock ==
    /\ Alive /\ spc \in {"lockP", "final"} /\ MutexFree
    /\ lock' = "saver"
    /\ spc' = IF spc = "lockP" THEN "saveP" ELSE "saveF"
    /\ UNCHANGED <<storeVars, committed, running, mainpc, hpc, count, fileVars>>

\* bot.save_blob(chain_file)
SaverSave(io_ok) ==
    /\ Alive /\ spc \in {"saveP", "saveF"}
    /\ \E r \in {SaveBlob(bot, file, io_ok)} :
           /\ file' = r.file
           /\ lastSave' = r.res
           /\ finalSave' = IF spc = "saveF" THEN r.res ELSE finalSave
    /\ written' = BlobOf(bot)
    /\ spc' = IF spc = "saveP" THEN "savedP" ELSE "savedF"
    /\ UNCHANGED <<storeVars, committed, running, lock, mainpc, hpc, count, loadres>>

\* a save_blob error that ends the save thread, as `?` or unwrap() would
SaverUnlockFatal ==
    /\ Alive /\ spc \in {"savedP", "savedF"}
    /\ lock' = "free"
    /\ spc' = IF spc = "savedP" /\ lastSave = "ok" THEN "check" ELSE "done"
    /\ UNCHANGED <<storeVars, committed, running, mainpc, hpc, count, fileVars>>

\* the guard of the lock block is dropped
SaverUnlock ==
    /\ Alive /\ spc \in {"savedP", "savedF"}
    /\ lock' = "free"
    /\ spc' = IF spc = "savedP" THEN "check" ELSE "done"
    /\ UNCHANGED <<storeVars, committed, running, mainpc, hpc, count, fileVars>>

(***************************************************************************)
(* Specification Spec: the events of one connection handled one after the  *)
(* other by bot.handle under the mutex, from the store as constructed at   *)
(* start-up.                                                               *)
(***************************************************************************)
Init ==
    /\ \E f \in InitFiles : \E r \in {ReadBlob(f, TRUE)} :
          /\ r.res # "panic"
          /\ file = f
          /\ loadres = r.res
          /\ bot = Construct(r)
    /\ committed = bot
    /\ sent = <<>> /\ hmsg = NoMessage /\ nmsg = 0 /\ drawn = NoDraw
    /\ running = TRUE /\ lock = "free"
    /\ mainpc = "loop" /\ hpc = "iter" /\ spc = "check" /\ count = 0
    /\ lastSave = "none" /\ written = NoBlob /\ finalSave = "none"

Next ==
    \/ \E m \in Inputs : Recv(m, MaxMsgs)
    \/ HandlerLock
    \/ \E random \in Draws(bot, hmsg), chain \in Binds(bot, hmsg) : Handle(random, chain)
    \/ Release

Spec == Init /\ [][Next]_vars

(***************************************************************************)
(* Specification SpecRun: run() with its three threads, from a chain_file  *)
(* of InitFiles, the learning arm of channel_message statement by          *)
(* statement.  FairRun adds the scheduling of the threads.                 *)
(***************************************************************************)
InitRun ==
    /\ file \in InitFiles
    /\ bot = NoBot /\ committed = NoBot
    /\ sent = <<>> /\ hmsg = NoMessage /\ nmsg = 0 /\ drawn = NoDraw
    /\ running = TRUE /\ lock = "free"
    /\ mainpc = "start" /\ hpc = "none" /\ spc = "none" /\ count = 0
    /\ loadres = "none" /\ lastSave = "none" /\ written = NoBlob /\ finalSave = "none"

MainStep == MainLoop \/ Join

HandlerStep ==
    \/ HandlerLock
    \/ HandleOther
    \/ HandleSettings
    \/ HandleTrainAllchain
    \/ HandleTrainUserChain
    \/ \E random \in 0..(Scale - 1) : HandleReply(random)
    \/ Release

SaverStep ==
    \/ SaverCheck
    \/ SaverTick
    \/ SaverElapsed
    \/ \E io_ok \in BOOLEAN : SaverSave(io_ok)
    \/ SaverUnlock

NextRun ==
    \/ \E io_ok \in BOOLEAN : Start(io_ok)
    \/ CtrlC
    \/ MainStep
    \/ \E m \in RunInputs : Recv(m, MaxEvents)
    \/ StreamEnd
    \/ HandlerStep
    \/ SaverStep
    \/ SaverLock

SpecRun == InitRun /\ [][NextRun]_vars

\* every thread that can take a step is scheduled again; a thread waiting for
\* the mutex gets it if it is free again and again
FairRun ==
    /\ SpecRun
    /\ WF_vars(MainStep)
    /\ WF_vars(HandlerStep)
    /\ WF_vars(SaverStep)
    /\ SF_vars(SaverLock)

(***************************************************************************)
(* Claims about the store, checked under Spec.                             *)
(***************************************************************************)
RECURSIVE SumTotals(_, _)
SumTotals(chans, users) ==
    IF users = {} THEN 0
    ELSE LET u == CHOOSE x \in users : TRUE
         IN  GetChainTotal(chans[u]) + SumTotals(chans, users \ {u})

\* the handler thread is inside the learning arm of channel_message
InLearningArm == hpc \in {"allchain", "userchain", "reply"}
\* this step is bot.handle(hmsg), from start to end
HandleStep == hpc = "handle" /\ hpc' = "handled"

HasRecord(b, channel, user) ==
    channel \in DOMAIN b.user_settings /\ user \in DOMAIN b.user_settings[channel]
\* the (channel, speaker) pairs that have a SettingsRecord
Records(b) ==
    {<<c, u>> \in (DOMAIN b.user_settings) \X Senders : HasRecord(b, c, u)}

\* C1: aggregate consistency.  Between two messages, for every channel whose
\* aggregate chain has been built, the total weight of the aggregate is the sum
\* of the total weights of the channel's speaker chains.
AggregateConsistency ==
    ~InLearningArm =>
        \A c \in DOMAIN bot.allchains :
            /\ c \in DOMAIN bot.chains
            /\ GetChainTotal(bot.allchains[c])
                   = SumTotals(bot.chains[c], DOMAIN bot.chains[c])

\* a store loaded from a snapshot of two speakers, whose aggregate was built
\* lazily and has since been trained on a message
AggregateConsistencyWitness ==
    /\ loadres = "ok" /\ hpc = "handled"
    /\ "#a" \in DOMAIN bot.allchains
    /\ Cardinality(DOMAIN bot.chains["#a"]) >= 2
    /\ GetChainTotal(bot.allchains["#a"]) > SumTotals(Blob1.chains["#a"], {"alice", "bob"})

\* C2: ignore suppression.  Handling a non-command message of a speaker who is
\* in the global ignore list, or whose record for the channel has ignored = true,
\* changes no speaker chain and no aggregate and sends nothing.
IgnoreSuppression ==
    [][(/\ HandleStep
        /\ ~IsCommand(hmsg.msg)
        /\ \/ hmsg.sender \in bot.ignore
           \/ /\ HasRecord(bot, hmsg.channel, hmsg.sender)
              /\ bot.user_settings[hmsg.channel][hmsg.sender].ignore)
       => /\ bot'.chains = bot.chains
          /\ bot'.allchains = bot.allchains
          /\ sent' = <<>>]_vars

\* a non-command message, with tokens, of a speaker ignored by her record only
IgnoreSuppressionWitness ==
    /\ hpc = "handled" /\ hmsg.msg = <<"x", "y">>
    /\ hmsg.sender \notin bot.ignore
    /\ HasRecord(bot, hmsg.channel, hmsg.sender)
    /\ bot.user_settings[hmsg.channel][hmsg.sender].ignore

IgnoreConfirm(to) == Privmsg(to, "ignored_confirm", NoSrc, 0, 0)

\* C3: the ignore command of a speaker who is not ignored sets the speaker's
\* ignored flag for the channel and sends one private confirmation; of an
\* ignored speaker it changes nothing and sends nothing.
IgnoreCommandSetsFlag ==
    [][(HandleStep /\ hmsg.msg = <<P, "ignore">> /\ hmsg.sender # Nick)
       => IF IsIgnored(bot, hmsg.channel, hmsg.sender)
          THEN bot' = bot /\ sent' = <<>>
          ELSE /\ HasRecord(bot', hmsg.channel, hmsg.sender)
               /\ bot'.user_settings[hmsg.channel][hmsg.sender].ignore
               /\ sent' = <<IgnoreConfirm(hmsg.sender)>>]_vars

\* C4: chance bounds.  A chance command whose value is not a number, or not in
\* [0, globalChance], changes no SettingsRecord and sends one private error
\* report; a value in the range becomes the chance of the invoker's record for
\* the channel, and no other record changes.
ChanceBounds ==
    [][(HandleStep /\ IsCommand(hmsg.msg) /\ hmsg.msg[2] = "chance"
        /\ Len(hmsg.msg) > 2 /\ hmsg.sender # Nick)
       => LET v == ParseF64(hmsg.msg[3])
              c == hmsg.channel
              u == hmsg.sender
          IN  IF v.ok /\ ~v.nan /\ 0 <= v.v /\ v.v <= bot.chance
              THEN /\ Records(bot') = Records(bot) \cup {<<c, u>>}
                   /\ bot'.user_settings[c][u].chance = v.v
                   /\ bot'.user_settings[c][u].ignore
                          = (HasRecord(bot, c, u) /\ bot.user_settings[c][u].ignore)
                   /\ \A r \in Records(bot) \ {<<c, u>>} :
                          bot'.user_settings[r[1]][r[2]] = bot.user_settings[r[1]][r[2]]
                   /\ sent' = <<Privmsg(u, "chance_set", NoSrc, v.v, 0)>>
              ELSE /\ bot'.user_settings = bot.user_settings
                   /\ Len(sent') = 1 /\ sent'[1].to = u
                   /\ sent'[1].kind = (IF v.ok THEN "chance_range" ELSE "chance_format")]_vars

\* a value above globalChance was refused and the record kept its lowered chance
ChanceBoundsWitness ==
    /\ hpc = "handled" /\ hmsg.msg = <<P, "chance", "3">>
    /\ HasRecord(bot, hmsg.channel, hmsg.sender)
    /\ bot.user_settings[hmsg.channel][hmsg.sender].chance = 1
    /\ Len(sent) = 1 /\ sent[1].kind = "chance_range"

(***************************************************************************)
(* Claims about persistence and the threads, checked under SpecRun and     *)
(* FairRun.                                                                *)
(***************************************************************************)
\* the file decodes to a BlobFile one of whose chains has another order than
\* the declared one
MixedOrder(f) ==
    /\ f # NoFile
    /\ \E d \in {FromSlice(f)} :
           /\ d.ok
           /\ \E c \in DOMAIN d.val.chains : \E u \in DOMAIN d.val.chains[c] :
                  d.val.chains[c][u].order # d.val.order

\* the save thread has called save_blob and still holds the mutex
JustSaved == spc \in {"savedP", "savedF"}

\* C5: order invariant on load.  A chain_file that declares order k and holds
\* a chain of another order is never loaded: once read it makes read_blob
\* panic, which is no Err(io::Error), and the process does not go on; when the
\* read itself fails the bot starts empty, with none of the file's data.
OrderInvariantOnLoad ==
    [][(mainpc = "start" /\ mainpc' # "start" /\ MixedOrder(file))
       => /\ loadres' \in {"panic", "err"}
          /\ loadres' = "panic" => mainpc' = "panicked" /\ bot' = bot
          /\ loadres' = "err" => bot' = New(Options)]_vars

OrderInvariantOnLoadWitness ==
    mainpc = "panicked" /\ loadres = "panic" /\ MixedOrder(file)

\* C6: round trip.  After a save that succeeded, read_blob of the file and
\* from_blob_file yield the chains, the settings and the order of the saved
\* bot, and an aggregate rebuilt from them equals each aggregate of the saved bot.
RoundTrip ==
    (JustSaved /\ lastSave = "ok") =>
        \A r \in {ReadBlob(file, TRUE)} :
            /\ r.res = "ok"
            /\ \A b2 \in {FromBlobFile(Options, r.blob)} :
                   /\ b2.chains = bot.chains
                   /\ b2.user_settings = bot.user_settings
                   /\ b2.order = bot.order
                   /\ \A c \in DOMAIN bot.allchains :
                          AllchainMut(b2, c).allchains[c] = bot.allchains[c]

\* C7: save overwrites.  After a save that succeeded the file holds the
\* serialization of the current chains, settings and order, and nothing else.
SaveOverwrites ==
    (JustSaved /\ lastSave = "ok") => file = ToVec(BlobOf(bot))

\* C8: final save on shutdown.  The last save is taken with the flag cleared,
\* run() returns only after that save was attempted, and once the flag is
\* cleared run() does return.
FinalSaveOnShutdown ==
    /\ [](spc \in {"saveF", "savedF", "done"} => ~running)
    /\ [](mainpc = "done" => spc = "done" /\ finalSave # "none")
    /\ (~running ~> mainpc = "done")

\* run() has returned after a last save of a store that learned something
FinalSaveOnShutdownWitness ==
    /\ mainpc = "done" /\ finalSave = "ok"
    /\ nmsg > 0 /\ file = ToVec(BlobOf(bot)) /\ bot.chains # EmptyMap

\* C9: no torn snapshot.  While the save thread is in a lock block the handler
\* thread is not inside bot.handle, and the BlobFile a save serializes is the
\* store as the handler thread last released it.
NoTornSnapshot ==
    /\ spc \in {"saveP", "savedP", "saveF", "savedF"}
           => hpc \in {"iter", "lock", "ended"} /\ lock = "saver"
    /\ JustSaved => written = BlobOf(committed)

\* a save taken after the one message was handled whole: the store started
\* empty and the BlobFile holds the chain the message trained
NoTornSnapshotWitness ==
    /\ JustSaved /\ lastSave = "ok" /\ loadres = "err" /\ nmsg = 1 /\ hpc = "iter"
    /\ written.chains # EmptyMap /\ written = BlobOf(bot)

\* C10: process lifecycle.  mainpc moves start -> loop -> join -> done only (a
\* read_blob that panics ends the process at start); the bot of the step to
\* loop is the loaded one after Ok(blob) and a new one after Err(e), which a
\* missing file gives; the one load is never repeated; the main loop is left
\* only with the flag cleared.
Lifecycle ==
    [][/\ mainpc' # mainpc =>
              <<mainpc, mainpc'>> \in {<<"start", "loop">>, <<"loop", "join">>,
                                       <<"join", "done">>, <<"start", "panicked">>}
       /\ (mainpc = "start" /\ mainpc' = "loop") =>
              /\ loadres = "none" /\ loadres' \in {"ok", "err"}
              /\ file = NoFile => loadres' = "err"
              /\ loadres' = "ok" =>
                     \A d \in {FromSlice(file)} :
                         d.ok /\ bot' = FromBlobFile(Options, d.val)
              /\ loadres' = "err" => bot' = New(Options)
       /\ (mainpc = "start" /\ mainpc' = "panicked") =>
              file # NoFile /\ (MixedOrder(file) \/ ~FromSlice(file).ok)
       /\ mainpc # "start" => loadres' = loadres
       /\ (mainpc = "loop" /\ mainpc' # "loop") => ~running]_vars

LifecycleWitness == mainpc = "done" /\ loadres = "ok" /\ ~running

(***************************************************************************)
(* Claims about failures and commands.                                     *)
(***************************************************************************)
\* C11: a failed save is not fatal.  A periodic save_blob that returns Err
\* leaves the store, the file, the flag and the other threads as they were;
\* the save thread then releases the mutex and comes to a save again (the next
\* periodic one, or the last one once the flag is cleared); and the save
\* thread ends only after the last save was attempted.
FailedSaveNotFatal ==
    /\ [][(spc = "saveP" /\ spc' = "savedP" /\ lastSave' = "err")
          => UNCHANGED <<bot, committed, file, running, mainpc, hpc, hmsg, nmsg>>]_vars
    /\ [](spc = "done" => finalSave # "none")
    /\ ((spc = "savedP" /\ lastSave = "err") ~> (spc \in {"saveP", "saveF"}))

\* a periodic save of the empty store failed, a message was learned since, and
\* the save thread is at its next periodic save
FailedSaveNotFatalWitness ==
    /\ spc = "saveP" /\ lastSave = "err" /\ running
    /\ written.chains = EmptyMap /\ bot.chains # EmptyMap /\ hpc = "iter"

\* C12: emulate.  `emulate <speaker> [<channel>]` changes nothing in the store;
\* when the named channel (the current one by default) holds a non-empty chain
\* of the speaker the one send is a sentence generated from that chain, made
\* in the current channel; when the channel or the speaker has no chain the
\* one send is the "No chain for channel/user" reply.
EmulateLookedUpChain ==
    [][(HandleStep /\ IsCommand(hmsg.msg) /\ hmsg.msg[2] = "emulate"
        /\ Len(hmsg.msg) >= 3 /\ hmsg.sender # Nick)
       => LET user == hmsg.msg[3]
              chan == IF Len(hmsg.msg) >= 4 THEN hmsg.msg[4] ELSE hmsg.channel
          IN  /\ bot' = bot
              /\ chan \notin DOMAIN bot.chains =>
                     sent' = <<Privmsg(hmsg.channel, "no_chain_channel",
                                       <<chan, user>>, 0, 0)>>
              /\ (chan \in DOMAIN bot.chains /\ user \notin DOMAIN bot.chains[chan]) =>
                     sent' = <<Privmsg(hmsg.channel, "no_chain_user",
                                       <<chan, user>>, 0, 0)>>
              /\ (/\ chan \in DOMAIN bot.chains
                  /\ user \in DOMAIN bot.chains[chan]
                  /\ ~ChainIsEmpty(bot.chains[chan][user])) =>
                     sent' = <<Privmsg(hmsg.channel, "generated", <<chan, user>>, 0, 0)>>]_vars

\* C13: listen.  The listen command of a speaker for whom is_ignored holds
\* leaves the speaker's record for the channel with ignored = false, changes no
\* other record and no chain, and sends one private confirmation; of a speaker
\* who is not ignored it changes nothing and sends nothing.
ListenClearsFlag ==
    [][(HandleStep /\ hmsg.msg = <<P, "listen">> /\ hmsg.sender # Nick)
       => LET c == hmsg.channel
              u == hmsg.sender
          IN  IF (u \in bot.ignore
                  \/ (HasRecord(bot, c, u) /\ bot.user_settings[c][u].ignore))
              THEN /\ Records(bot') = Records(bot) \cup {<<c, u>>}
                   /\ ~bot'.user_settings[c][u].ignore
                   /\ \A r \in Records(bot) \ {<<c, u>>} :
                          bot'.user_settings[r[1]][r[2]] = bot.user_settings[r[1]][r[2]]
                   /\ bot'.chains = bot.chains /\ bot'.allchains = bot.allchains
                   /\ sent' = <<Privmsg(u, "listen_confirm", NoSrc, 0, 0)>>
              ELSE bot' = bot /\ sent' = <<>>]_vars

\* the speaker whose loaded record had ignored = true has issued listen
ListenClearsFlagWitness ==
    /\ hpc = "handled" /\ hmsg = Message("alice", "#b", <<P, "listen">>)
    /\ loadres = "ok" /\ file = ToVec(Blob1)
    /\ Blob1.user_settings["#b"]["alice"].ignore
    /\ HasRecord(bot, "#b", "alice") /\ ~bot.user_settings["#b"]["alice"].ignore
    /\ sent = <<Privmsg("alice", "listen_confirm", NoSrc, 0, 0)>>

\* C14: reply-chance range.  In every state of a running bot, also one
\* constructed from a loaded snapshot, the chance of every SettingsRecord lies
\* in [0, bot.chance], the global chance of the running process.
ReplyChanceRange ==
    \A r \in Records(bot) :
        /\ 0 <= bot.user_settings[r[1]][r[2]].chance
        /\ bot.user_settings[r[1]][r[2]].chance <= bot.chance

\* C15: an empty chain is never asked to generate.  Every sentence sent was
\* generated from a chain that held data when generate_sentence was called.
NeverGenerateFromEmpty ==
    \A i \in 1..Len(sent) : sent[i].kind = "generated" => sent[i].num = 0

\* C16: uniform order.  Every speaker chain and every aggregate chain of the
\* store has the order of the store, from a new store and from a loaded one.
UniformOrder ==
    /\ \A c \in DOMAIN bot.chains : \A u \in DOMAIN bot.chains[c] :
           bot.chains[c][u].order = bot.order
    /\ \A c \in DOMAIN bot.allchains : bot.allchains[c].order = bot.order

\* a store loaded from a snapshot of another order than the configured one, in
\* which a new speaker's chain was created and the aggregate built by merging
UniformOrderWitness ==
    /\ loadres = "ok" /\ bot.order # OptOrder(Options) /\ hpc = "handled"
    /\ "#a" \in DOMAIN bot.allchains /\ ~ChainIsEmpty(bot.allchains["#a"])
    /\ "#a" \in DOMAIN bot.chains /\ {"alice", "bob"} \subseteq DOMAIN bot.chains["#a"]

Verbs == {"emulate", "force", "all", "ignore", "listen", "chance", "status"}
HasChain(b, channel, user) ==
    channel \in DOMAIN b.chains /\ user \in DOMAIN b.chains[channel]
\* the total weight of a speaker's chain, 0 when there is none
TotalOf(b, channel, user) ==
    IF HasChain(b, channel, user) THEN GetChainTotal(b.chains[channel][user]) ELSE 0

\* C17: commands never train.  Handling a message whose first token is the
\* prefix and that has a further token leaves every speaker chain and every
\* built aggregate as it was (a chain it creates is empty, an aggregate it
\* builds is the merge of the channel's chains), and sends a generated
\* sentence only for the verbs emulate, force and all; for an unknown verb the
\* store is unchanged and nothing is sent.  The prefix alone is learned as an
\* ordinary message.
CommandsNeverTrain ==
    [][/\ (HandleStep /\ Len(hmsg.msg) > 1 /\ hmsg.msg[1] = P /\ hmsg.sender # Nick)
          => /\ \A c \in DOMAIN bot.chains : \A u \in DOMAIN bot.chains[c] :
                    HasChain(bot', c, u) /\ bot'.chains[c][u] = bot.chains[c][u]
             /\ \A c \in DOMAIN bot'.chains : \A u \in DOMAIN bot'.chains[c] :
                    ~HasChain(bot, c, u) => ChainIsEmpty(bot'.chains[c][u])
             /\ \A c \in DOMAIN bot.allchains :
                    c \in DOMAIN bot'.allchains /\ bot'.allchains[c] = bot.allchains[c]
             /\ \A c \in DOMAIN bot'.allchains :
                    c \notin DOMAIN bot.allchains =>
                        GetChainTotal(bot'.allchains[c])
                            = SumTotals(bot'.chains[c], DOMAIN bot'.chains[c])
             /\ hmsg.msg[2] \notin {"emulate", "force", "all"} =>
                    \A i \in 1..Len(sent') : sent'[i].kind # "generated"
             /\ hmsg.msg[2] \notin Verbs => bot' = bot /\ sent' = <<>>
       /\ (HandleStep /\ hmsg.msg = <<P>> /\ hmsg.sender # Nick
           /\ hmsg.sender \notin bot.ignore
           /\ ~(HasRecord(bot, hmsg.channel, hmsg.sender)
                /\ bot.user_settings[hmsg.channel][hmsg.sender].ignore))
          => TotalOf(bot', hmsg.channel, hmsg.sender)
                 > TotalOf(bot, hmsg.channel, hmsg.sender)]_vars

\* a force command answered with a sentence of the invoker's chain, which
\* still has the weight the snapshot gave it
CommandsNeverTrainWitness ==
    /\ hpc = "handled" /\ hmsg = Message("alice", "#a", <<P, "force">>)
    /\ Len(sent) = 1 /\ sent[1].kind = "generated"
    /\ HasChain(bot, "#a", "alice")
    /\ bot.chains["#a"]["alice"] = Blob1.chains["#a"]["alice"]

\* C18: settings isolation.  No step removes a SettingsRecord.  A record that
\* a step creates is the one of the speaker and channel of the message being
\* handled and has ignored = false and the global chance (or the value of the
\* chance command that created it).  The values of a record change only in
\* handling an ignore, listen or chance command of its speaker in its channel.
SettingsIsolation ==
    [][/\ \A r \in Records(bot) :
              /\ r \in Records(bot')
              /\ bot'.user_settings[r[1]][r[2]] # bot.user_settings[r[1]][r[2]]
                     => /\ HandleStep
                        /\ hmsg.channel = r[1] /\ hmsg.sender = r[2]
                        /\ Len(hmsg.msg) > 1 /\ hmsg.msg[1] = P
                        /\ hmsg.msg[2] \in {"ignore", "listen", "chance"}
       /\ \A r \in Records(bot') \ Records(bot) :
              /\ HandleStep /\ hmsg.channel = r[1] /\ hmsg.sender = r[2]
              /\ ~bot'.user_settings[r[1]][r[2]].ignore
              /\ \/ bot'.user_settings[r[1]][r[2]].chance = bot.chance
                 \/ /\ Len(hmsg.msg) > 2 /\ hmsg.msg[1] = P /\ hmsg.msg[2] = "chance"
                    /\ bot'.user_settings[r[1]][r[2]].chance = ParseF64(hmsg.msg[3]).v]_vars

\* bob has lowered his chance in #a, and alice's first message there has
\* created her record with the defaults
SettingsIsolationWitness ==
    /\ hpc = "handled" /\ hmsg = Message("alice", "#a", <<"x">>) /\ loadres = "err"
    /\ HasRecord(bot, "#a", "bob") /\ bot.user_settings["#a"]["bob"].chance = 0
    /\ HasRecord(bot, "#a", "alice")
    /\ bot.user_settings["#a"]["alice"] = [ignore |-> FALSE, chance |-> bot.chance]

\* C19: own messages are ignored.  Handling a message whose sender is the
\* bot's current nickname, command or not, changes nothing in the store and
\* sends nothing.
OwnMessagesIgnored ==
    [][(HandleStep /\ hmsg.sender = Nick) => bot' = bot /\ sent' = <<>>]_vars

\* a status command of the bot's own nickname was handled, the second message
\* of the run: nothing was sent, and the store is as new
OwnMessagesIgnoredWitness ==
    /\ hpc = "handled" /\ hmsg = Message(Nick, "#a", <<P, "status">>)
    /\ nmsg = 2 /\ loadres = "err" /\ bot = New(Options) /\ sent = <<>>

\* C20: probabilistic trigger rule.  Handling a non-command message of a
\* speaker who is not ignored sends a reply, one sentence generated from the
\* speaker's chain to the channel, if and only if the number drawn is less
\* than the speaker's chance for the channel (the global chance when the
\* speaker had no record); with chance 0 no reply is sent; and with or without
\* a reply the message is trained into the speaker's chain and the aggregate.
ProbabilisticTrigger ==
    [][(/\ HandleStep /\ hmsg.sender # Nick
        /\ ~(Len(hmsg.msg) > 1 /\ hmsg.msg[1] = P)
        /\ hmsg.sender \notin bot.ignore
        /\ ~(HasRecord(bot, hmsg.channel, hmsg.sender)
             /\ bot.user_settings[hmsg.channel][hmsg.sender].ignore))
       => LET c == hmsg.channel
              u == hmsg.sender
              chance == IF HasRecord(bot, c, u) THEN bot.user_settings[c][u].chance
                        ELSE bot.chance
          IN  /\ drawn' \in 0..(Scale - 1)
              /\ (sent' # <<>>) <=> (drawn' < chance)
              /\ chance = 0 => sent' = <<>>
              /\ sent' # <<>> =>
                     /\ Len(sent') = 1 /\ sent'[1].kind = "generated"
                     /\ sent'[1].to = c /\ sent'[1].src = <<c, u>>
              /\ HasChain(bot', c, u)
              /\ bot'.chains[c][u] =
                     TrainString(IF HasChain(bot, c, u) THEN bot.chains[c][u]
                                 ELSE ChainNew(bot.order), hmsg.msg)
              /\ c \in DOMAIN bot'.allchains
              /\ bot'.allchains[c] = TrainString(AllchainMut(bot, c).allchains[c], hmsg.msg)]_vars

\* a speaker who has set her chance to 0 sent a message: the least number was
\* drawn, no reply was sent, and the message is in her chain and the aggregate
ProbabilisticTriggerWitness ==
    /\ hpc = "handled" /\ hmsg = Message("alice", "#a", <<"x">>) /\ loadres = "err"
    /\ HasRecord(bot, "#a", "alice")
    /\ bot.user_settings["#a"]["alice"].chance = 0 /\ drawn = 0 /\ sent = <<>>
    /\ HasChain(bot, "#a", "alice") /\ "#a" \in DOMAIN bot.allchains
    /\ GetChainTotal(bot.chains["#a"]["alice"]) = 2
    /\ GetChainTotal(bot.allchains["#a"]) = 2

(***************************************************************************)
(* Claims about the end of the process and the confirmations.              *)
(***************************************************************************)
\* C21: the final snapshot is complete.  Once the save thread has taken its
\* last save, the store stays as that save serialized it until the process
\* exits: no message is handled in between, and so every message handled
\* before the exit is in the final snapshot.
FinalSnapshotComplete ==
    spc = "done" => written = BlobOf(bot)

\* C22: confirmations are truthful.  When handling a message has sent the
\* "now listening" confirmation, is_ignored is false of the speaker in the
\* channel; when it has sent the "now being ignored" confirmation, is_ignored
\* is true of the speaker in the channel.
ConfirmationsTruthful ==
    (hpc = "handled" /\ Len(sent) = 1) =>
        /\ sent[1].kind = "listen_confirm" => ~IsIgnored(bot, hmsg.channel, hmsg.sender)
        /\ sent[1].kind = "ignored_confirm" => IsIgnored(bot, hmsg.channel, hmsg.sender)

=============================================================================
